---- MODULE Spec2Model ----
(***************************************************************************)
(* Model of cp1/src/MAPEstimator.py: a maximum a-posteriori estimator of   *)
(* unigram probabilities under a symmetric Dirichlet prior.                *)
(*                                                                         *)
(* One estimator object is modelled.  Its fields are the variables vocab   *)
(* (the size of the shared Vocabulary), alpha, total_count and count_V.    *)
(* Every public method is one action; a call runs to completion (the code  *)
(* is single threaded) and leaves what it was called with and what it      *)
(* returned or raised in call / word_list / outcome.                       *)
(*                                                                         *)
(* The Vocabulary is the one of the class doctest: three words, with ids   *)
(* 0, 1, 2 in order of first appearance; 'never_seen-before' is the word   *)
(* it does not know.  alpha is a float in the code; the values tried here  *)
(* are whole numbers, and a probability is held as the exact fraction      *)
(* num / den, or as the IEEE special value the float division yields.      *)
(***************************************************************************)
EXTENDS Integers, Sequences, FiniteSets

\* ---- bounds of the model -------------------------------------------------
MaxFitLen == 4
MaxScoreLen == 1

\* the values of alpha tried: 0.0, 1.0 and 2.0 (the default)
Alphas == {0, 1, 2}

\* the words of the doctest: those its Vocabulary is built from, and the one
\* it has never seen
DoctestVocabulary ==
    [w \in {"dinosaur", "trex", "stegosaurus"} |->
        IF w = "dinosaur" THEN 0 ELSE IF w = "trex" THEN 1 ELSE 2]

Words == {"dinosaur", "trex", "stegosaurus", "never_seen-before"}

SeqsUpTo(S, n) == UNION {[1 .. k -> S] : k \in 0 .. n}

FitLists == SeqsUpTo(Words, MaxFitLen)

ScoreLists == SeqsUpTo(Words, MaxScoreLen)

VARIABLES vocab, alpha, total_count, count_V, fitted, call, word_list, outcome

vars == <<vocab, alpha, total_count, count_V, fitted, call, word_list, outcome>>

\* ---- the Vocabulary collaborator -----------------------------------------
\* vocab is the mapping from each known word to its id in 0 .. size - 1
vocab_size == Cardinality(DOMAIN vocab)

in_vocabulary(word) == word \in DOMAIN vocab

\* raises KeyError when ~in_vocabulary(word)
get_word_id(word) == vocab[word]

\* ---- values --------------------------------------------------------------
\* count_V before the first fit
None == <<>>

NoValue == [cls |-> "none"]

NoOutcome == [kind |-> "none", err |-> "", value |-> NoValue]

Return(v) == [kind |-> "return", err |-> "", value |-> v]

Raise(e) == [kind |-> "raise", err |-> e, value |-> NoValue]

\* numpy float64 division n / d: a zero divisor gives inf, -inf or nan (with a
\* RuntimeWarning), never an exception
float_div(n, d) ==
    IF d # 0 THEN [cls |-> "finite", num |-> n, den |-> d]
    ELSE IF n > 0 THEN [cls |-> "inf", num |-> n, den |-> d]
    ELSE IF n < 0 THEN [cls |-> "-inf", num |-> n, den |-> d]
    ELSE [cls |-> "nan", num |-> n, den |-> d]

\* ---- __init__ ------------------------------------------------------------
Init ==
    /\ vocab = DoctestVocabulary
    /\ alpha \in Alphas
    /\ total_count = 0
    /\ count_V = None
    /\ fitted = "never"
    /\ call = "__init__"
    /\ word_list = <<>>
    /\ outcome = NoOutcome

\* ---- fit -----------------------------------------------------------------
zeros(n) == [i \in 0 .. (n - 1) |-> 0]

fit_reset_count_V(cv) == zeros(vocab_size)

\* a fit that forgets to reset total_count
fit_reset_total_count_accumulates(tc) == tc

fit_reset_total_count(tc) == 0

\* a fit that writes = 1 where the code writes += 1
fit_increment_assigns(cv, id) == [cv EXCEPT ![id] = 1]

fit_increment(cv, id) == [cv EXCEPT ![id] = @ + 1]

\* a fit loop that looks the word up before it counts it
RECURSIVE fit_loop_lookup_first(_, _, _, _)
fit_loop_lookup_first(cv, tc, L, i) ==
    IF i > Len(L) THEN [count_V |-> cv, total_count |-> tc, raised |-> ""]
    ELSE IF ~in_vocabulary(L[i])
         THEN [count_V |-> cv, total_count |-> tc, raised |-> "KeyError"]
         ELSE fit_loop_lookup_first(fit_increment(cv, get_word_id(L[i])),
                                    tc + 1, L, i + 1)

\* the for loop of fit from position i on; stops at the first word whose
\* lookup raises, after total_count was already incremented for it
RECURSIVE fit_loop(_, _, _, _)
fit_loop(cv, tc, L, i) ==
    IF i > Len(L) THEN [count_V |-> cv, total_count |-> tc, raised |-> ""]
    ELSE IF ~in_vocabulary(L[i])
         THEN [count_V |-> cv, total_count |-> tc + 1, raised |-> "KeyError"]
         ELSE fit_loop(fit_increment(cv, get_word_id(L[i])), tc + 1, L, i + 1)

fit_run(cv, tc, L) ==
    fit_loop(fit_reset_count_V(cv), fit_reset_total_count(tc), L, 1)

fit(L) ==
    \E r \in {fit_run(count_V, total_count, L)} :
    /\ count_V' = r.count_V
    /\ total_count' = r.total_count
    /\ fitted' = IF r.raised = "" THEN "ok" ELSE "failed"
    /\ call' = "fit"
    /\ word_list' = L
    /\ outcome' = IF r.raised = "" THEN Return(NoValue) ELSE Raise(r.raised)
    /\ UNCHANGED <<vocab, alpha>>

\* ---- predict_proba -------------------------------------------------------
\* len([i for i in self.count_V if i > 0]) == self.vocab.size
all_vocab_seen(cv) ==
    Cardinality({i \in DOMAIN cv : cv[i] > 0}) = vocab_size

\* an existence check that accepts alpha = 1
map_exists_accepts_one(cv, a) == all_vocab_seen(cv) \/ a >= 1

map_exists(cv, a) == all_vocab_seen(cv) \/ a > 1

\* numerator and denominator of the quotient predict_proba returns
proba_numerator(cv, a, id) == cv[id] + a - 1

\* a denominator that lost its parentheses
proba_denominator_unparenthesised(tc, a) == tc + vocab_size * a - 1

proba_denominator(tc, a) == tc + vocab_size * (a - 1)

\* what predict_proba(word) returns or raises in the state (cv, tc, a)
predict_proba_result(cv, tc, a, word) ==
    IF cv = None THEN Raise("TypeError")
    ELSE IF ~map_exists(cv, a) THEN Raise("ValueError")
    ELSE IF ~in_vocabulary(word) THEN Raise("KeyError")
    ELSE Return(float_div(proba_numerator(cv, a, get_word_id(word)),
                          proba_denominator(tc, a)))

predict_proba(word) ==
    /\ outcome' = predict_proba_result(count_V, total_count, alpha, word)
    /\ call' = "predict_proba"
    /\ word_list' = <<word>>
    /\ UNCHANGED <<vocab, alpha, total_count, count_V, fitted>>

\* ---- score ---------------------------------------------------------------
\* the for loop of score from position i on; acc is the sequence of the
\* probabilities whose logarithms were added to total_log_proba so far
RECURSIVE score_loop(_, _, _, _, _, _)
score_loop(cv, tc, a, L, i, acc) ==
    IF i > Len(L) THEN [probs |-> acc, raised |-> ""]
    ELSE LET p == predict_proba_result(cv, tc, a, L[i]) IN
         IF p.kind = "raise" THEN [probs |-> acc, raised |-> p.err]
         ELSE score_loop(cv, tc, a, L, i + 1, Append(acc, p.value))

\* total_log_proba / len(word_list): 0.0 / 0 for the empty list
score_result(cv, tc, a, L) ==
    LET r == score_loop(cv, tc, a, L, 1, <<>>) IN
    IF r.raised # "" THEN Raise(r.raised)
    ELSE IF Len(L) = 0 THEN Raise("ZeroDivisionError")
    ELSE Return([cls |-> "meanlog", probs |-> r.probs, n |-> Len(L)])

\* a score that keeps its word counter in total_count
score_counts_words(L) ==
    /\ outcome' = score_result(count_V, total_count, alpha, L)
    /\ call' = "score"
    /\ word_list' = L
    /\ total_count' = total_count + Len(L)
    /\ UNCHANGED <<vocab, alpha, count_V, fitted>>

score(L) ==
    /\ outcome' = score_result(count_V, total_count, alpha, L)
    /\ call' = "score"
    /\ word_list' = L
    /\ UNCHANGED <<vocab, alpha, total_count, count_V, fitted>>

\* ---- the specification ---------------------------------------------------
Next ==
    \/ \E L \in FitLists : fit(L)
    \/ \E word \in Words : predict_proba(word)
    \/ \E L \in ScoreLists : score(L)

Spec == Init /\ [][Next]_vars

\* ---- helpers of the properties -------------------------------------------
RECURSIVE SumOver(_, _)
SumOver(f, S) ==
    IF S = {} THEN 0
    ELSE LET x == CHOOSE y \in S : TRUE IN f[x] + SumOver(f, S \ {x})

Sum(cv) == SumOver(cv, DOMAIN cv)

Occurrences(L, w) == Cardinality({i \in 1 .. Len(L) : L[i] = w})

AllKnown(L) == \A i \in 1 .. Len(L) : in_vocabulary(L[i])

\* 1-based position of the first word of L the vocabulary does not know
FirstUnknown(L) ==
    CHOOSE i \in 1 .. Len(L) :
        /\ ~in_vocabulary(L[i])
        /\ \A j \in 1 .. (i - 1) : in_vocabulary(L[j])

Prefix(L, n) == SubSeq(L, 1, n)

\* count_V after the doctest's fit: dinosaur 2, trex 1, stegosaurus 1
DoctestCounts == [id \in 0 .. 2 |-> IF id = 0 THEN 2 ELSE 1]

FitReturned == call = "fit" /\ outcome.kind = "return"

FitRaised == call = "fit" /\ outcome.kind = "raise"

PredictReturned == call = "predict_proba" /\ outcome.kind = "return"

\* 0 <= num / den <= 1 for a finite quotient
InUnitInterval(v) ==
    /\ v.cls = "finite"
    /\ \/ v.den > 0 /\ 0 <= v.num /\ v.num <= v.den
       \/ v.den < 0 /\ v.den <= v.num /\ v.num <= 0

\* ---- C1 ------------------------------------------------------------------
\* C1 (count conservation): when fit was called with a list whose words are
\* all in the vocabulary it returns, count_V has one entry per vocabulary id,
\* sum(count_V) = len(L) = total_count, and the entry of every vocabulary
\* word is the number of its occurrences in L.
C1_CountConservation ==
    (call = "fit" /\ AllKnown(word_list)) =>
        /\ outcome.kind = "return"
        /\ DOMAIN count_V = 0 .. (vocab_size - 1)
        /\ Sum(count_V) = Len(word_list)
        /\ total_count = Len(word_list)
        /\ \A w \in DOMAIN vocab :
               count_V[get_word_id(w)] = Occurrences(word_list, w)

C1_Witness ==
    /\ FitReturned
    /\ word_list = <<"dinosaur", "trex", "dinosaur", "stegosaurus">>
    /\ count_V[0] = 2
    /\ total_count = 4

\* ---- C2 ------------------------------------------------------------------
\* C2 (re-fit overwrite): after every fit that returns, whatever was fitted
\* before it, count_V and total_count are what a freshly constructed
\* estimator (count_V = None, total_count = 0) holds after the same call.
C2_RefitOverwrite ==
    FitReturned =>
        \E fresh \in {fit_run(None, 0, word_list)} :
            /\ count_V = fresh.count_V
            /\ total_count = fresh.total_count

C2_Witness ==
    /\ FitReturned
    /\ word_list = <<"trex">>
    /\ total_count = 1
    /\ Sum(count_V) = 1

\* ---- C3 ------------------------------------------------------------------
\* C3 (probability normalization): after a fit that returned, when every
\* vocabulary word has a positive count or alpha > 1, the numerators
\* count_V[id] + alpha - 1 of all vocabulary words sum to the denominator
\* total_count + vocab.size * (alpha - 1), the denominator is not zero, and
\* so every predict_proba is a finite quotient and they sum to 1.
C3_Normalization ==
    (/\ call = "predict_proba"
     /\ in_vocabulary(word_list[1])
     /\ fitted = "ok"
     /\ map_exists(count_V, alpha)) =>
        /\ proba_denominator(total_count, alpha) # 0
        /\ Sum([id \in DOMAIN count_V |-> proba_numerator(count_V, alpha, id)])
               = proba_denominator(total_count, alpha)
        /\ outcome.kind = "return"
        /\ outcome.value.cls = "finite"

\* ---- C4 ------------------------------------------------------------------
\* C4 (unknown word): predict_proba of a word that is not in the vocabulary
\* raises KeyError, whether or not fit was ever called and whatever the
\* counts and alpha are.
C4_UnknownWord ==
    (call = "predict_proba" /\ ~in_vocabulary(word_list[1])) =>
        outcome = Raise("KeyError")

\* ---- C5 ------------------------------------------------------------------
\* C5 (invalid hyperparameter boundary): with alpha = 1 and fitted counts,
\* predict_proba of a vocabulary word raises ValueError when some vocabulary
\* word has count zero, and returns a finite probability when every
\* vocabulary word has a positive count.
C5_AlphaOneBoundary ==
    (/\ call = "predict_proba"
     /\ alpha = 1
     /\ count_V # None
     /\ in_vocabulary(word_list[1])) =>
        IF \E id \in DOMAIN count_V : count_V[id] = 0
        THEN outcome = Raise("ValueError")
        ELSE outcome.kind = "return" /\ InUnitInterval(outcome.value)

C5_Witness ==
    /\ call = "predict_proba"
    /\ alpha = 1
    /\ count_V # None
    /\ in_vocabulary(word_list[1])
    /\ \E id \in DOMAIN count_V : count_V[id] = 0
    /\ \E id \in DOMAIN count_V : count_V[id] > 0
    /\ outcome = Raise("ValueError")

\* ---- C6 ------------------------------------------------------------------
\* C6 (empty score input): score([]) raises the dedicated EmptyInput error,
\* not an arithmetic error and not a value.
C6_EmptyScore ==
    (call = "score" /\ word_list = <<>>) => outcome = Raise("EmptyInput")

\* ---- C7 ------------------------------------------------------------------
\* C7 (probability range): whenever predict_proba returns, that is whenever
\* the existence check passed for a vocabulary word, the value it returns is
\* a number in [0, 1], also for alpha below 1.
C7_ProbabilityRange == PredictReturned => InUnitInterval(outcome.value)

\* ---- C8 ------------------------------------------------------------------
\* C8 (MAP formula): whenever predict_proba(w) returns, the value is the
\* quotient (count_V[id(w)] + alpha - 1) / (total_count + vocab.size *
\* (alpha - 1)) (the float quotient by zero when the denominator is zero);
\* with the doctest's counts (dinosaur 2, trex 1, stegosaurus 1) and
\* alpha = 2, predict_proba('dinosaur') is 3/7.
C8_MAPFormula ==
    PredictReturned =>
        LET c == count_V[get_word_id(word_list[1])]
            n == c + alpha - 1
            d == total_count + Cardinality(DOMAIN vocab) * (alpha - 1)
            v == outcome.value
        IN  /\ d # 0 => v.cls = "finite" /\ v.num * d = n * v.den
            /\ d = 0 => v.cls = (IF n > 0 THEN "inf"
                                 ELSE IF n < 0 THEN "-inf" ELSE "nan")
            /\ (/\ alpha = 2
                /\ word_list = <<"dinosaur">>
                /\ count_V = DoctestCounts
                /\ total_count = 4) =>
                   v.cls = "finite" /\ 7 * v.num = 3 * v.den

C8_Witness ==
    /\ PredictReturned
    /\ alpha = 2
    /\ word_list = <<"dinosaur">>
    /\ count_V = DoctestCounts
    /\ total_count = 4
    /\ fitted = "ok"

\* ---- C9 ------------------------------------------------------------------
\* C9 (read-only queries): a call of predict_proba or score, returning or
\* raising, leaves count_V, total_count, alpha and the vocabulary as they
\* were; only fit changes count_V or total_count; alpha and the vocabulary
\* never change after construction.
C9_ReadOnlyQueries ==
    [][/\ call' \in {"predict_proba", "score"} =>
              UNCHANGED <<count_V, total_count, alpha, vocab>>
       /\ <<count_V, total_count>>' # <<count_V, total_count>> => call' = "fit"
       /\ alpha' = alpha
       /\ vocab' = vocab]_vars

C9_Witness ==
    /\ call = "score"
    /\ outcome.kind = "return"
    /\ Len(word_list) > 0
    /\ total_count > 0
    /\ Sum(count_V) = total_count

\* ---- C10 -----------------------------------------------------------------
\* C10 (failed fit leaves partial state): when fit(L) raises at L[k], the
\* first word not in the vocabulary (k counted from 0), the error is the
\* lookup's KeyError, count_V holds exactly the counts of L[0..k-1],
\* total_count = k + 1 and sum(count_V) = total_count - 1.
C10_FailedFitPartialState ==
    (call = "fit" /\ ~AllKnown(word_list)) =>
        LET k == FirstUnknown(word_list) - 1 IN
        /\ outcome = Raise("KeyError")
        /\ fitted = "failed"
        /\ DOMAIN count_V = 0 .. (vocab_size - 1)
        /\ \A w \in DOMAIN vocab :
               count_V[get_word_id(w)] = Occurrences(Prefix(word_list, k), w)
        /\ total_count = k + 1
        /\ Sum(count_V) = total_count - 1

C10_Witness ==
    /\ FitRaised
    /\ word_list = <<"dinosaur", "trex", "never_seen-before", "trex">>
    /\ total_count = 3
    /\ Sum(count_V) = 2

====
